---- MODULE Spec2Model ----
(***************************************************************************)
(* The automation skeleton of youre-the-os (src/automated_skeleton.py):    *)
(* the class RunOs, its action helpers, the entry point __call__ and the   *)
(* twelve event handlers, as a state machine.                              *)
(*                                                                         *)
(* The handlers of the skeleton have a docstring and no statement: they    *)
(* return their object unchanged.  What the event stream has reported to   *)
(* the agent is therefore kept beside the program state, in observer       *)
(* variables that a handler never reads; one observer records at a time    *)
(* (obs), so that the reported facts of one subsystem are not multiplied   *)
(* by those of the others.  The observers "batch" and "refs" also fix what *)
(* the caller does: "batch" hands __call__ a batch chosen beforehand and    *)
(* logs the handlers run, "refs" keeps the references the caller holds and  *)
(* calls through several instances of RunOs.                               *)
(***************************************************************************)
EXTENDS Integers, Sequences, FiniteSets, TLC

\* ------------------------------------------------------------------ bounds
MaxPid == 2
MaxIdx == 0
MaxIo == 1
MaxStarv == 1
MaxBatch == 2
MaxQueue == 2
MaxCfg == 1
MaxInst == 2

Pids == 1..MaxPid
Idxs == 0..MaxIdx
Pages == Pids \X Idxs
\* the instances of RunOs: run_os is instance 1
Instances == 1..MaxInst

\* "the initial starvation level is 1 (it starts at 0)"
InitialStarvation == 1

\* ------------------------------------------------------------------ events
KnownKinds ==
  {"IO_QUEUE", "PAGE_NEW", "PAGE_USE", "PAGE_SWAP", "PAGE_FREE", "PROC_NEW",
   "PROC_CPU", "PROC_STARV", "PROC_WAIT_IO", "PROC_WAIT_PAGE", "PROC_TERM",
   "PROC_KILL"}

Ev_IO_QUEUE == {[etype |-> "IO_QUEUE", io_count |-> c] : c \in 0..MaxIo}
Ev_PAGE_NEW ==
  {[etype |-> "PAGE_NEW", pid |-> p, idx |-> i, swap |-> s, use |-> u] :
     p \in Pids, i \in Idxs, s \in BOOLEAN, u \in BOOLEAN}
Ev_PAGE_USE ==
  {[etype |-> "PAGE_USE", pid |-> p, idx |-> i, use |-> u] :
     p \in Pids, i \in Idxs, u \in BOOLEAN}
Ev_PAGE_SWAP ==
  {[etype |-> "PAGE_SWAP", pid |-> p, idx |-> i, swap |-> s] :
     p \in Pids, i \in Idxs, s \in BOOLEAN}
Ev_PAGE_FREE ==
  {[etype |-> "PAGE_FREE", pid |-> p, idx |-> i] : p \in Pids, i \in Idxs}
Ev_PROC_NEW == {[etype |-> "PROC_NEW", pid |-> p] : p \in Pids}
Ev_PROC_CPU ==
  {[etype |-> "PROC_CPU", pid |-> p, cpu |-> c] : p \in Pids, c \in BOOLEAN}
Ev_PROC_STARV ==
  {[etype |-> "PROC_STARV", pid |-> p, starvation_level |-> l] :
     p \in Pids, l \in 0..MaxStarv}
Ev_PROC_WAIT_IO ==
  {[etype |-> "PROC_WAIT_IO", pid |-> p, waiting_for_io |-> w] :
     p \in Pids, w \in BOOLEAN}
Ev_PROC_WAIT_PAGE ==
  {[etype |-> "PROC_WAIT_PAGE", pid |-> p, waiting_for_page |-> w] :
     p \in Pids, w \in BOOLEAN}
Ev_PROC_TERM == {[etype |-> "PROC_TERM", pid |-> p] : p \in Pids}
Ev_PROC_KILL == {[etype |-> "PROC_KILL", pid |-> p] : p \in Pids}
\* an event of a kind for which RunOs has no handle_<kind> attribute
Ev_unknown == {[etype |-> "PROC_PAUSE", pid |-> p] : p \in Pids}

NoEvent == [etype |-> "NONE"]

Events ==
  Ev_IO_QUEUE \cup Ev_PAGE_NEW \cup Ev_PAGE_USE \cup Ev_PAGE_SWAP
    \cup Ev_PAGE_FREE \cup Ev_PROC_NEW \cup Ev_PROC_CPU \cup Ev_PROC_STARV
    \cup Ev_PROC_WAIT_IO \cup Ev_PROC_WAIT_PAGE \cup Ev_PROC_TERM
    \cup Ev_PROC_KILL \cup Ev_unknown
\* the lists of events the observer "batch" calls run_os with: made of one
\* event of every kind, and of the creation of every process
Sample ==
  {CHOOSE e \in S : TRUE :
     S \in {Ev_IO_QUEUE, Ev_PAGE_NEW, Ev_PAGE_USE, Ev_PAGE_SWAP, Ev_PAGE_FREE,
            Ev_PROC_CPU, Ev_PROC_STARV, Ev_PROC_WAIT_IO, Ev_PROC_WAIT_PAGE,
            Ev_PROC_TERM, Ev_PROC_KILL, Ev_unknown}} \cup Ev_PROC_NEW
Batches == UNION {[1..n -> Sample] : n \in 0..MaxBatch}

VARIABLES
  \* the globals passed by the game
  num_cpus, num_ram_pages, num_swap_pages,
  \* the class attributes of RunOs
  procs, in_cpu, wait_io, wait_page, ram_pages, swap_pages, event_queue,
  \* the position of the caller ("start": run_os not called yet, "running":
  \* inside __call__, "returned": the batch has just been handed out, "held":
  \* the caller holds it and has called a helper since) and the number of
  \* events the loop of __call__ has still to dispatch
  pc, remaining,
  \* the instance whose method was called last, and the lists an instance
  \* would hold of its own (RunOs assigns none)
  self_id, own_queue,
  \* which observer records, and what the events have reported to it
  obs, io_count, io_waiters, killed, rep_proc, rep_page, page_waiters,
  last, twice,
  \* the actions the handlers have requested in this invocation, and whether
  \* the queue held actions when the invocation began
  requested, stale,
  \* the batch __call__ was given and the handlers it has run on it
  batch, handled,
  \* what the last return handed to the caller, and what the return before
  \* it handed out
  out, older

cfg == <<num_cpus, num_ram_pages, num_swap_pages>>
Mirror == <<procs, in_cpu, wait_io, wait_page, ram_pages, swap_pages>>
reported ==
  <<io_count, io_waiters, killed, rep_proc, rep_page, page_waiters>>
ghost == <<obs, reported, last, twice>>
caller == <<requested, stale, batch, handled, out, older>>
vars ==
  <<cfg, Mirror, event_queue, own_queue, self_id, pc, remaining, ghost,
    caller>>

\* the instances the caller uses
Used == IF obs = "refs" THEN Instances ELSE {1}

\* ------------------------------------------------------------------ RunOs
\* where instance i finds _event_queue: no method assigns self._event_queue,
\* so the lookup ends at the attribute of the class.  (The variant is an
\* __init__ that gives each instance a list of its own.)
QueueCell_instance(i) == "instance"
QueueCell(i) == "class"
QueueOf(i) == IF QueueCell(i) = "class" THEN event_queue ELSE own_queue[i]

\* the object the methods of instance i receive: the seven lists of the class
Self(i) ==
  [procs |-> procs, in_cpu |-> in_cpu, wait_io |-> wait_io,
   wait_page |-> wait_page, ram_pages |-> ram_pages,
   swap_pages |-> swap_pages, event_queue |-> QueueOf(i)]

\* (The variant puts the action at the head of the queue.)
move_page_prepends(self, pid, idx) ==
  [self EXCEPT !.event_queue =
     <<[type |-> "page", pid |-> pid, idx |-> idx]>> \o @]
move_page(self, pid, idx) ==
  [self EXCEPT !.event_queue =
     Append(@, [type |-> "page", pid |-> pid, idx |-> idx])]

\* (The variant also records the process as on a CPU.)
move_process_tracks(self, pid) ==
  [self EXCEPT !.event_queue = Append(@, [type |-> "process", pid |-> pid]),
               !.in_cpu = Append(@, pid)]
\* (The variant leaves the pid out of the action.)
move_process_bare(self, pid) ==
  [self EXCEPT !.event_queue = Append(@, [type |-> "process"])]
move_process(self, pid) ==
  [self EXCEPT !.event_queue = Append(@, [type |-> "process", pid |-> pid])]

do_io(self) ==
  [self EXCEPT !.event_queue = Append(@, [type |-> "io_queue"])]

\* Variants of the handlers, as a first implementation could write them; each
\* is used only to show that a property below depends on its handler.
\* the page is recorded where the event reports it, whatever the capacity
handle_PAGE_NEW_records(self, event) ==
  IF event.swap
    THEN [self EXCEPT !.swap_pages = Append(@, <<event.pid, event.idx>>)]
    ELSE [self EXCEPT !.ram_pages = Append(@, <<event.pid, event.idx>>)]
\* the process is recorded on a CPU whatever the number of CPUs
handle_PROC_CPU_records(self, event) ==
  IF event.cpu
    THEN [self EXCEPT !.in_cpu = Append(@, event.pid)]
    ELSE [self EXCEPT !.in_cpu = SelectSeq(@, LAMBDA p : p # event.pid)]
\* every report of a placement is answered by a move of that process
handle_PROC_CPU_moves(self, event) == move_process(self, event.pid)
\* I/O is dispatched as soon as the queue is not empty, waiting process or not
handle_IO_QUEUE_dispatches(self, event) ==
  IF event.io_count > 0 THEN do_io(self) ELSE self
\* I/O is dispatched as soon as a process waits for it
handle_PROC_WAIT_IO_dispatches(self, event) ==
  IF event.waiting_for_io THEN do_io(self) ELSE self
\* the killed process is asked off its CPU
handle_PROC_KILL_moves(self, event) == move_process(self, event.pid)
\* the process is recorded without a look at what is recorded already
handle_PROC_NEW_records(self, event) ==
  [self EXCEPT !.procs = Append(@, event.pid)]
\* the process whose starvation level has changed is moved
handle_PROC_STARV_moves(self, event) == move_process(self, event.pid)
\* the first page of the waiting process is moved
handle_PROC_WAIT_PAGE_moves(self, event) ==
  IF event.waiting_for_page THEN move_page(self, event.pid, 0) ELSE self

\* The handlers: a docstring and no statement.
handle_IO_QUEUE(self, event) == self
handle_PAGE_NEW(self, event) == self
\* (The variant asks for the move of a page when it is reported in use.)
handle_PAGE_USE_evicts(self, event) ==
  IF event.use THEN move_page(self, event.pid, event.idx) ELSE self
handle_PAGE_USE(self, event) == self
handle_PAGE_SWAP(self, event) == self
handle_PAGE_FREE(self, event) == self
handle_PROC_NEW(self, event) == self
handle_PROC_CPU(self, event) == self
handle_PROC_STARV(self, event) == self
handle_PROC_WAIT_IO(self, event) == self
handle_PROC_WAIT_PAGE(self, event) == self
handle_PROC_TERM(self, event) == self
handle_PROC_KILL(self, event) == self

\* the object after a method of instance i has run
Becomes(i, self) ==
  /\ procs' = self.procs
  /\ in_cpu' = self.in_cpu
  /\ wait_io' = self.wait_io
  /\ wait_page' = self.wait_page
  /\ ram_pages' = self.ram_pages
  /\ swap_pages' = self.swap_pages
  /\ IF QueueCell(i) = "class"
       THEN event_queue' = self.event_queue /\ own_queue' = own_queue
       ELSE /\ own_queue' = [own_queue EXCEPT ![i] = self.event_queue]
            /\ event_queue' = event_queue
  /\ self_id' = i

\* ------------------------------------------------------------------ observers
DeadProc ==
  [live |-> FALSE, cpu |-> FALSE, starv |-> InitialStarvation,
   wait_io |-> FALSE, wait_page |-> FALSE]
NewProc == [DeadProc EXCEPT !.live = TRUE]
NoPage == [present |-> FALSE, swap |-> FALSE, use |-> FALSE]

Gone(e) == e.etype \in {"PROC_TERM", "PROC_KILL"}

\* the process facts the events report (fields of a process not reported
\* alive are not recorded)
ProcAfter(r, e) ==
  IF e.etype = "PROC_NEW" THEN NewProc
  ELSE IF Gone(e) THEN DeadProc
  ELSE IF ~r.live THEN r
  ELSE IF e.etype = "PROC_CPU" THEN [r EXCEPT !.cpu = e.cpu]
  ELSE IF e.etype = "PROC_STARV" THEN [r EXCEPT !.starv = e.starvation_level]
  ELSE IF e.etype = "PROC_WAIT_IO" THEN [r EXCEPT !.wait_io = e.waiting_for_io]
  ELSE IF e.etype = "PROC_WAIT_PAGE"
    THEN [r EXCEPT !.wait_page = e.waiting_for_page]
  ELSE r

\* the page facts the events report
PageAfter(r, e) ==
  IF e.etype = "PAGE_NEW"
    THEN [present |-> TRUE, swap |-> e.swap, use |-> e.use]
  ELSE IF e.etype = "PAGE_FREE" THEN NoPage
  ELSE IF ~r.present THEN r
  ELSE IF e.etype = "PAGE_USE" THEN [r EXCEPT !.use = e.use]
  ELSE IF e.etype = "PAGE_SWAP" THEN [r EXCEPT !.swap = e.swap]
  ELSE r

HasPid(e) == e.etype \notin {"IO_QUEUE", "NONE"}
HasPage(e) == e.etype \in {"PAGE_NEW", "PAGE_USE", "PAGE_SWAP", "PAGE_FREE"}

WaitersAfter(w, e, kind, flag) ==
  IF e.etype = kind THEN (IF flag THEN w \cup {e.pid} ELSE w \ {e.pid})
  ELSE IF Gone(e) THEN w \ {e.pid}
  ELSE w

\* what the reported page facts say
ReportedRam == {pg \in Pages : rep_page[pg].present /\ ~rep_page[pg].swap}
ReportedSwap == {pg \in Pages : rep_page[pg].present /\ rep_page[pg].swap}
\* the resident pages not in use, and the swapped pages of the processes that
\* wait for a page
Victims == {pg \in ReportedRam : ~rep_page[pg].use}
Requested == {pg \in ReportedSwap : pg[1] \in page_waiters}
\* RAM is full and every resident page is in use
CannotFree ==
  Cardinality(ReportedRam) >= num_ram_pages /\ Victims = {}

Observe(e) ==
  /\ obs' = obs
  /\ io_count' =
       IF obs = "io" /\ e.etype = "IO_QUEUE" THEN e.io_count ELSE io_count
  /\ io_waiters' =
       IF obs = "io"
         THEN WaitersAfter(io_waiters, e, "PROC_WAIT_IO",
                e.etype = "PROC_WAIT_IO" /\ e.waiting_for_io)
         ELSE io_waiters
  /\ killed' =
       IF obs = "life" /\ e.etype = "PROC_KILL" THEN killed \cup {e.pid}
       ELSE IF obs = "life" /\ e.etype = "PROC_NEW" THEN killed \ {e.pid}
       ELSE killed
  /\ rep_proc' =
       IF obs = "sched" /\ HasPid(e) /\ ~HasPage(e)
         THEN [rep_proc EXCEPT ![e.pid] = ProcAfter(@, e)]
         ELSE rep_proc
  /\ rep_page' =
       IF obs = "mem" /\ HasPage(e)
         THEN [rep_page EXCEPT ![<<e.pid, e.idx>>] = PageAfter(@, e)]
       ELSE IF obs = "mem" /\ Gone(e)
         THEN [pg \in Pages |->
                 IF pg[1] = e.pid THEN NoPage ELSE rep_page[pg]]
       ELSE rep_page
  /\ page_waiters' =
       IF obs = "mem"
         THEN WaitersAfter(page_waiters, e, "PROC_WAIT_PAGE",
                e.etype = "PROC_WAIT_PAGE" /\ e.waiting_for_page)
         ELSE page_waiters
  /\ last' = IF obs = "dispatch" THEN e ELSE last
  /\ twice' = IF obs = "dispatch" THEN (last = e) ELSE twice

\* ------------------------------------------------------------------ references
\* What __call__ hands out: the list _event_queue itself.  A reference shows
\* the list it points to; a copy (the variant) shows what it was made from.
NoHandle == [alias |-> FALSE, of |-> 0, snap |-> <<>>]
\* (The variant returns list(self._event_queue).)
ReturnValue_copy(i) == [alias |-> FALSE, of |-> i, snap |-> QueueOf(i)]
ReturnValue(i) == [alias |-> TRUE, of |-> i, snap |-> <<>>]
View(h) == IF h.alias THEN QueueOf(h.of) ELSE h.snap

\* ------------------------------------------------------------------ Init
Init ==
  /\ num_cpus \in 0..MaxCfg
  /\ num_ram_pages \in 0..MaxCfg
  /\ num_swap_pages \in 0..MaxCfg
  /\ procs = <<>>
  /\ in_cpu = <<>>
  /\ wait_io = <<>>
  /\ wait_page = <<>>
  /\ ram_pages = <<>>
  /\ swap_pages = <<>>
  /\ event_queue = <<>>
  /\ own_queue = [i \in Instances |-> <<>>]
  /\ self_id = 1
  /\ pc = "start"
  /\ remaining = 0
  /\ obs \in {"dispatch", "io", "life", "sched", "mem", "batch", "refs"}
  /\ io_count = 0
  /\ io_waiters = {}
  /\ killed = {}
  /\ rep_proc = [p \in Pids |-> DeadProc]
  /\ rep_page = [pg \in Pages |-> NoPage]
  /\ page_waiters = {}
  /\ last = NoEvent
  /\ twice = FALSE
  /\ requested = <<>>
  /\ stale = FALSE
  /\ batch = <<>>
  /\ handled = <<>>
  /\ out = NoHandle
  /\ older = NoHandle

\* ------------------------------------------------------------------ __call__
\* self._event_queue.clear()  (The variant leaves the queue as it is.)
Cleared_skipped(self) == self
Cleared(self) == [self EXCEPT !.event_queue = <<>>]

\* instance i is called with the batch b of n events: the queue is cleared.
\* Only the observer "batch" fixes the events beforehand; for the others
\* each event is drawn when the loop reaches it.
CallOn(i, b, n) ==
  /\ pc # "running"
  /\ Becomes(i, Cleared(Self(i)))
  /\ pc' = "running"
  /\ remaining' = n
  /\ batch' = b
  /\ handled' = <<>>
  /\ requested' = <<>>
  /\ stale' = (obs \in {"dispatch", "refs"} /\ QueueOf(i) # <<>>)
  /\ older' = IF obs = "refs" THEN out ELSE older
  /\ last' = NoEvent
  /\ twice' = FALSE
  /\ UNCHANGED <<cfg, obs, reported, out>>

\* the caller calls one of its instances with a batch
Invoke ==
  \E i \in Used, n \in 0..MaxBatch :
    \E b \in (IF obs = "batch" THEN {c \in Batches : Len(c) = n} ELSE {<<>>}) :
      CallOn(i, b, n)

\* No statement of the module reads num_cpus, num_ram_pages or
\* num_swap_pages.  (The variant refuses a configuration with a count that is
\* not positive.)
Call_validates ==
  /\ num_cpus > 0
  /\ num_ram_pages > 0
  /\ num_swap_pages > 0
  /\ Invoke
Call == Invoke

\* for event in events: the event the loop takes when r events are left
\* (The variant walks the list from its end.)
NextEvent_reversed(b, r) == b[r]
NextEvent(b, r) == b[Len(b) - r + 1]

\* getattr(self, f"handle_{etype}", None)
\* (The variant is the lookup without its default: no handler is found for
\* an unknown kind and the loop does not get past the event.)
Lookup_strict(etype) == etype
Lookup(etype) == IF etype \in KnownKinds THEN etype ELSE "None"

\* one turn of the loop: the event e goes to the handler h, which leaves the
\* object as after
Dispatch(e, h, after) ==
  /\ pc = "running"
  /\ remaining > 0
  /\ obs = "batch" => e = NextEvent(batch, remaining)
  /\ Becomes(self_id, after)
  /\ remaining' = remaining - 1
  /\ pc' = "running"
  /\ requested' =
       requested \o SubSeq(after.event_queue, Len(QueueOf(self_id)) + 1,
                           Len(after.event_queue))
  /\ handled' =
       IF obs = "batch" /\ h # "None" THEN Append(handled, <<h, e>>)
       ELSE handled
  /\ Observe(e)
  /\ UNCHANGED <<cfg, stale, batch, out, older>>

Dispatch_IO_QUEUE ==
  \E e \in Events :
    /\ Lookup(e.etype) = "IO_QUEUE"
    /\ Dispatch(e, "IO_QUEUE", handle_IO_QUEUE(Self(self_id), e))
Dispatch_PAGE_NEW ==
  \E e \in Events :
    /\ Lookup(e.etype) = "PAGE_NEW"
    /\ Dispatch(e, "PAGE_NEW", handle_PAGE_NEW(Self(self_id), e))
Dispatch_PAGE_USE ==
  \E e \in Events :
    /\ Lookup(e.etype) = "PAGE_USE"
    /\ Dispatch(e, "PAGE_USE", handle_PAGE_USE(Self(self_id), e))
Dispatch_PAGE_SWAP ==
  \E e \in Events :
    /\ Lookup(e.etype) = "PAGE_SWAP"
    /\ Dispatch(e, "PAGE_SWAP", handle_PAGE_SWAP(Self(self_id), e))
Dispatch_PAGE_FREE ==
  \E e \in Events :
    /\ Lookup(e.etype) = "PAGE_FREE"
    /\ Dispatch(e, "PAGE_FREE", handle_PAGE_FREE(Self(self_id), e))
Dispatch_PROC_NEW ==
  \E e \in Events :
    /\ Lookup(e.etype) = "PROC_NEW"
    /\ Dispatch(e, "PROC_NEW", handle_PROC_NEW(Self(self_id), e))
Dispatch_PROC_CPU ==
  \E e \in Events :
    /\ Lookup(e.etype) = "PROC_CPU"
    /\ Dispatch(e, "PROC_CPU", handle_PROC_CPU(Self(self_id), e))
Dispatch_PROC_STARV ==
  \E e \in Events :
    /\ Lookup(e.etype) = "PROC_STARV"
    /\ Dispatch(e, "PROC_STARV", handle_PROC_STARV(Self(self_id), e))
Dispatch_PROC_WAIT_IO ==
  \E e \in Events :
    /\ Lookup(e.etype) = "PROC_WAIT_IO"
    /\ Dispatch(e, "PROC_WAIT_IO", handle_PROC_WAIT_IO(Self(self_id), e))
Dispatch_PROC_WAIT_PAGE ==
  \E e \in Events :
    /\ Lookup(e.etype) = "PROC_WAIT_PAGE"
    /\ Dispatch(e, "PROC_WAIT_PAGE", handle_PROC_WAIT_PAGE(Self(self_id), e))
Dispatch_PROC_TERM ==
  \E e \in Events :
    /\ Lookup(e.etype) = "PROC_TERM"
    /\ Dispatch(e, "PROC_TERM", handle_PROC_TERM(Self(self_id), e))
Dispatch_PROC_KILL ==
  \E e \in Events :
    /\ Lookup(e.etype) = "PROC_KILL"
    /\ Dispatch(e, "PROC_KILL", handle_PROC_KILL(Self(self_id), e))

\* getattr(self, "handle_<kind>", None) is None: the event is skipped.
\* (The variant is the lookup without its default: the AttributeError leaves
\* __call__ and the rest of the batch is not processed.)
Dispatch_unhandled_raises ==
  /\ pc = "running"
  /\ remaining > 0
  /\ \E e \in Ev_unknown :
       /\ obs = "batch" => e = NextEvent(batch, remaining)
       /\ Observe(e)
  /\ remaining' = 0
  /\ pc' = "held"
  /\ UNCHANGED <<cfg, Mirror, event_queue, own_queue, self_id, caller>>

Dispatch_unhandled ==
  \E e \in Events :
    /\ Lookup(e.etype) = "None"
    /\ Dispatch(e, "None", Self(self_id))

\* the loop is over: the queue is returned
Return ==
  /\ pc = "running"
  /\ remaining = 0
  /\ pc' = "returned"
  /\ out' = IF obs = "refs" THEN ReturnValue(self_id) ELSE out
  /\ UNCHANGED <<cfg, Mirror, event_queue, own_queue, self_id, remaining,
                 obs, reported, last, twice, requested, stale, batch,
                 handled, older>>

\* ------------------------------------------------------------------ helpers
\* The helpers are public methods of an instance; no handler calls them, a
\* caller can.
Helper(i, after) ==
  /\ pc # "running"
  /\ Len(QueueOf(i)) < MaxQueue
  /\ Becomes(i, after)
  /\ pc' = IF pc = "start" THEN "start" ELSE "held"
  \* the batch and its log are kept until the caller's next step
  /\ batch' = <<>>
  /\ handled' = <<>>
  /\ UNCHANGED <<cfg, remaining, ghost, requested, stale, out, older>>

Request_move_page ==
  \E i \in Used, p \in Pids, x \in Idxs : Helper(i, move_page(Self(i), p, x))
Request_move_process ==
  \E i \in Used, p \in Pids : Helper(i, move_process(Self(i), p))
Request_do_io == \E i \in Used : Helper(i, do_io(Self(i)))

Next ==
  \/ Call
  \/ Dispatch_IO_QUEUE
  \/ Dispatch_PAGE_NEW
  \/ Dispatch_PAGE_USE
  \/ Dispatch_PAGE_SWAP
  \/ Dispatch_PAGE_FREE
  \/ Dispatch_PROC_NEW
  \/ Dispatch_PROC_CPU
  \/ Dispatch_PROC_STARV
  \/ Dispatch_PROC_WAIT_IO
  \/ Dispatch_PROC_WAIT_PAGE
  \/ Dispatch_PROC_TERM
  \/ Dispatch_PROC_KILL
  \/ Dispatch_unhandled
  \/ Return
  \/ Request_move_page
  \/ Request_move_process
  \/ Request_do_io

Spec == Init /\ [][Next]_vars

\* __call__ is sequential code without a blocking statement: once entered,
\* its loop keeps taking its next step
Loop ==
  \/ Dispatch_IO_QUEUE
  \/ Dispatch_PAGE_NEW
  \/ Dispatch_PAGE_USE
  \/ Dispatch_PAGE_SWAP
  \/ Dispatch_PAGE_FREE
  \/ Dispatch_PROC_NEW
  \/ Dispatch_PROC_CPU
  \/ Dispatch_PROC_STARV
  \/ Dispatch_PROC_WAIT_IO
  \/ Dispatch_PROC_WAIT_PAGE
  \/ Dispatch_PROC_TERM
  \/ Dispatch_PROC_KILL
  \/ Dispatch_unhandled
  \/ Return
LiveSpec == Spec /\ WF_vars(Loop)

TypeOK ==
  /\ pc \in {"start", "running", "returned", "held"}
  /\ remaining \in 0..MaxBatch
  /\ Len(event_queue) <= MaxQueue
  /\ self_id \in Used
  /\ own_queue = [i \in Instances |-> <<>>]
  /\ Len(requested) <= Len(event_queue)
  /\ stale \in BOOLEAN
  /\ batch \in Batches
  /\ Len(handled) <= Len(batch)
  /\ {out.of, older.of} \subseteq Instances \cup {0}

\* ------------------------------------------------------------------ batches
Range(q) == {q[i] : i \in 1..Len(q)}
IsMove(a) == a.type \in {"page", "process"}
\* no two entries of q are a move of the same target
NoDupTargets(q) ==
  \A i, j \in 1..Len(q) : (i < j /\ IsMove(q[i])) => q[i] # q[j]
CountIo(q) == Cardinality({i \in 1..Len(q) : q[i].type = "io_queue"})
ProcessMoves(q) == {a \in Range(q) : a.type = "process"}
PageMoves(q) == {a \in Range(q) : a.type = "page"}
Targets(q, p) == \E a \in Range(q) : IsMove(a) /\ a.pid = p
MovesPage(q, pg) ==
  [type |-> "page", pid |-> pg[1], idx |-> pg[2]] \in Range(q)
Known(e) == e.etype \in KnownKinds

\* ------------------------------------------------------------------ C1
\* C1: in every reachable state the mirror holds at most num_ram_pages
\* pages in RAM and at most num_swap_pages pages in swap.
C1_Capacity ==
  /\ Len(ram_pages) <= num_ram_pages
  /\ Len(swap_pages) <= num_swap_pages

\* an invocation has returned after more pages were reported created in RAM
\* and in swap than either holds
C1_Witness ==
  /\ obs = "mem"
  /\ pc = "returned"
  /\ Cardinality(ReportedRam) >= 1
  /\ Cardinality(ReportedRam) >= num_ram_pages
  /\ Cardinality(ReportedSwap) >= 1
  /\ Cardinality(ReportedSwap) >= num_swap_pages

\* ------------------------------------------------------------------ C2
\* C2: in every reachable state the mirror holds at most num_cpus processes
\* as on a CPU.
C2_CpuSlots == Len(in_cpu) <= num_cpus

ReportedLive == {p \in Pids : rep_proc[p].live}
ReportedOnCpu == {p \in ReportedLive : rep_proc[p].cpu}
C2_Witness ==
  /\ obs = "sched"
  /\ pc = "returned"
  /\ Cardinality(ReportedOnCpu) >= 1
  /\ Cardinality(ReportedOnCpu) >= num_cpus

C4_UnknownIgnored ==
  [][(obs = "dispatch" /\ pc = "running" /\ remaining > 0 /\ ~Known(last'))
       => (/\ Mirror' = Mirror
           /\ event_queue' = event_queue
           /\ pc' = "running"
           /\ remaining' = remaining - 1)]_vars

\* an event of an unknown kind has been dispatched and events of the batch
\* are left
C4_Witness ==
  /\ obs = "dispatch"
  /\ pc = "running"
  /\ last \in Ev_unknown
  /\ remaining > 0

\* ------------------------------------------------------------------ C5
\* C5: a batch returned while the reported I/O queue depth is 0, or while no
\* process is reported or mirrored as waiting for I/O, holds no io_queue
\* action.
C5_NoSpeculativeIo ==
  (/\ obs = "io"
   /\ pc = "returned"
   /\ (io_count = 0 \/ io_waiters = {} \/ wait_io = <<>>))
    => CountIo(event_queue) = 0

\* depth 0 and a process waiting for I/O, at the return of an invocation
C5_Witness ==
  /\ obs = "io"
  /\ pc = "returned"
  /\ io_count = 0
  /\ io_waiters # {}

\* ------------------------------------------------------------------ C6
IoDue == obs = "io" /\ pc = "returned" /\ io_count > 0 /\ io_waiters # {}

\* C6 as claimed: a batch returned while the reported depth is positive and a
\* process is reported waiting for I/O holds exactly one io_queue action.
C6_Original == IoDue => CountIo(event_queue) = 1

\* C6 as amended: such a batch holds no io_queue action (handle_IO_QUEUE and
\* handle_PROC_WAIT_IO never call do_io).
C6_Amended == IoDue => CountIo(event_queue) = 0

C6_Witness == IoDue /\ Cardinality(io_waiters) = MaxPid

\* ------------------------------------------------------------------ C7
InSeq(x, q) == \E i \in 1..Len(q) : q[i] = x
OwnsIn(p, q) == \E i \in 1..Len(q) : q[i][1] = p

\* C7: a process killed and not created again since is in no list of the
\* mirror, owns no page of the mirror, and is the target of no action of a
\* returned batch.
C7_KilledPurged ==
  \A p \in killed :
    /\ ~InSeq(p, procs)
    /\ ~InSeq(p, in_cpu)
    /\ ~InSeq(p, wait_io)
    /\ ~InSeq(p, wait_page)
    /\ ~OwnsIn(p, ram_pages)
    /\ ~OwnsIn(p, swap_pages)
    /\ (pc = "returned" => ~Targets(event_queue, p))

\* an invocation has returned after PROC_KILL for every process
C7_Witness == obs = "life" /\ pc = "returned" /\ killed = Pids

\* ------------------------------------------------------------------ C8
\* C8: the dispatch of an event of a known kind right after the dispatch of
\* the same event leaves the mirror as it is.
C8_Idempotent ==
  [][(/\ obs = "dispatch"
      /\ pc = "running"
      /\ remaining > 0
      /\ Known(last')
      /\ last' = last)
       => Mirror' = Mirror]_vars

\* the same event of a known kind has been applied twice in a row
C8_Witness == obs = "dispatch" /\ twice /\ Known(last) /\ pc = "running"

\* ------------------------------------------------------------------ C9
Blocked(p) == rep_proc[p].wait_io \/ rep_proc[p].wait_page
\* the processes on a CPU once the process moves of the batch are applied
MovedOdd(q, p) ==
  Cardinality({i \in 1..Len(q) : q[i].type = "process" /\ q[i].pid = p}) % 2
    = 1
OnCpuAfter(q) ==
  {p \in ReportedLive : rep_proc[p].cpu # MovedOdd(q, p)}
Inverted(on) ==
  \E p \in ReportedLive \ on, r \in on :
    rep_proc[p].starv > rep_proc[r].starv
\* no process is blocked and every CPU slot is taken
SchedSettled ==
  /\ obs = "sched"
  /\ pc = "returned"
  /\ \A p \in ReportedLive : ~Blocked(p)
  /\ Cardinality(ReportedOnCpu) = num_cpus

\* C9 as claimed: with no process blocked and the slots full, once the process
\* moves of the returned batch are applied no process off the CPU has a
\* strictly higher starvation level than a process on a CPU.
C9_Original == SchedSettled => ~Inverted(OnCpuAfter(event_queue))

\* C9 as amended: in that situation, also when a process off the CPU has a
\* strictly higher starvation level than one on a CPU, the returned batch
\* holds no process move: the placement stays as the events reported it.
C9_Amended ==
  (SchedSettled /\ Inverted(ReportedOnCpu))
    => ProcessMoves(event_queue) = {}

C9_Witness == SchedSettled /\ Inverted(ReportedOnCpu)

\* ------------------------------------------------------------------ C10
PageLeq(a, b) == a[1] < b[1] \/ (a[1] = b[1] /\ a[2] <= b[2])
Lowest(S) == CHOOSE a \in S : \A b \in S : PageLeq(a, b)
\* RAM is full, a resident page is not in use, and a process waits for a page
\* that is in swap
SwapInDue ==
  /\ obs = "mem"
  /\ pc = "returned"
  /\ Cardinality(ReportedRam) = num_ram_pages
  /\ Victims # {}
  /\ Requested # {}

\* C10 as claimed: the batch then moves the lowest resident page not in use
\* and a swapped page of every process that waits for one.
C10_Original ==
  SwapInDue =>
    /\ MovesPage(event_queue, Lowest(Victims))
    /\ \A p \in page_waiters :
         (\E pg \in Requested : pg[1] = p)
           => \E pg \in Requested : pg[1] = p /\ MovesPage(event_queue, pg)

\* C10 as amended: the batch then holds no page move: nothing is evicted and
\* nothing is swapped in.
C10_Amended == SwapInDue => PageMoves(event_queue) = {}

C10_Witness == SwapInDue /\ Lowest(Victims)[1] \notin page_waiters
\* ------------------------------------------------------------------ C11
\* C11: no batch holds a move of a page that is reported resident in RAM and
\* in use; and when RAM is full of pages in use, the batch holds no move of a
\* resident page and no move of a swapped page a process waits for.
InUseResident == {pg \in ReportedRam : rep_page[pg].use}
C11_NoEvictInUse ==
  (obs = "mem" /\ pc = "returned") =>
    /\ \A pg \in InUseResident : ~MovesPage(event_queue, pg)
    /\ CannotFree =>
         \A pg \in ReportedRam \cup Requested : ~MovesPage(event_queue, pg)

\* an invocation has returned while RAM holds a page, is full of pages in
\* use, and a process waits for a swapped page
C11_Witness ==
  /\ obs = "mem"
  /\ pc = "returned"
  /\ InUseResident # {}
  /\ CannotFree
  /\ Requested # {}
\* ------------------------------------------------------------------ C12
\* the three shapes of an action
PageAction ==
  {[type |-> "page", pid |-> p, idx |-> x] : p \in Pids, x \in Idxs}
ProcessAction == {[type |-> "process", pid |-> p] : p \in Pids}
IoAction == {[type |-> "io_queue"]}
ShapesOf(a) == {S \in {PageAction, ProcessAction, IoAction} : a \in S}

\* C12: every element of the list __call__ returns, and of that list while
\* the caller holds it, has exactly one of the three shapes: a page move
\* (type 'page', pid, idx), a process move (type 'process', pid) or an I/O
\* dispatch (type 'io_queue').
C12_Shapes ==
  \A i \in 1..Len(event_queue) : Cardinality(ShapesOf(event_queue[i])) = 1

\* the caller holds a batch with a page move followed by an action of
\* another shape
C12_Witness ==
  /\ pc = "held"
  /\ Len(event_queue) = MaxQueue
  /\ event_queue[1] \in PageAction
  /\ event_queue[MaxQueue] \notin PageAction
\* ------------------------------------------------------------------ C13
\* C13: every invocation completes and returns: inside __call__ a step leads
\* to the next turn of the loop or to the return, never anywhere else, and
\* every invocation that has begun reaches its return, whatever the events
\* (none, events about processes and pages never created, a creation twice).
C13_Completes ==
  /\ [][pc = "running" => pc' \in {"running", "returned"}]_vars
  /\ (pc = "running") ~> (pc = "returned")

\* an invocation has returned whose last two events were the same creation
\* of a process
C13_Witness ==
  /\ obs = "dispatch"
  /\ pc = "returned"
  /\ twice
  /\ last.etype = "PROC_NEW"
\* ------------------------------------------------------------------ C14
Positive == num_cpus > 0 /\ num_ram_pages > 0 /\ num_swap_pages > 0

\* C14 as stated: __call__ has run only if the three counts are positive.
C14_Original == pc # "start" => Positive

\* C14, amended: whatever the three counts are, run_os exists and can be
\* called whenever it is not running.
C14_Amended == pc # "running" => ENABLED Call

\* an invocation has returned although no count is positive
C14_Witness ==
  /\ pc = "returned"
  /\ num_cpus = 0
  /\ num_ram_pages = 0
  /\ num_swap_pages = 0
\* ------------------------------------------------------------------ C15
\* C15: during an invocation and at its return the queue holds exactly the
\* actions requested by the handlers of that invocation: what the queue held
\* when the invocation began (left from the batch before, or appended by a
\* helper called between two invocations) is not in it.
C15_OnlyThisInvocation ==
  pc \in {"running", "returned"} => QueueOf(self_id) = requested

\* an invocation that began with actions in the queue has returned
C15_Witness ==
  /\ obs = "dispatch"
  /\ stale
  /\ pc = "returned"
  /\ last # NoEvent
\* ------------------------------------------------------------------ C16
\* the handler calls a list of events is due: for each event of a known
\* kind, in the order of the list, one call of handle_<its kind> with it
Due(s) ==
  LET k == SelectSeq(s, Known)
  IN  [i \in 1..Len(k) |-> <<k[i].etype, k[i]>>]
\* the events the loop has been through
Done == SubSeq(batch, 1, Len(batch) - remaining)

\* C16: the events of a batch are dispatched in the order of the batch, each
\* event of a known kind exactly once and to handle_<its kind> only: at every
\* point of an invocation the handler calls made are those due for the
\* events gone through, and at the return those due for the whole batch.
C16_InOrderOnce ==
  (obs = "batch" /\ pc \in {"running", "returned"}) =>
    /\ handled = Due(Done)
    /\ pc = "returned" => Done = batch

\* an invocation has returned from a batch of two different events of known
\* kinds
C16_Witness ==
  /\ obs = "batch"
  /\ pc = "returned"
  /\ Len(handled) = MaxBatch
  /\ batch[1] # batch[MaxBatch]
\* ------------------------------------------------------------------ C17
\* C17: a helper call appends exactly one action at the tail of the queue
\* and leaves the entries before it as they are (the steps outside an
\* invocation are the helper calls); and what an invocation returns is the
\* sequence of the actions its handlers requested, in the order of the
\* requests.
C17_AppendsOne ==
  [][/\ (pc # "running" /\ pc' # "running") =>
          \E a \in PageAction \cup ProcessAction \cup IoAction :
            event_queue' = Append(event_queue, a)
     /\ pc' = "returned" => event_queue' = requested']_vars

\* the caller has appended a page move behind a different action
C17_Witness ==
  /\ pc = "held"
  /\ Len(event_queue) = MaxQueue
  /\ event_queue[MaxQueue] \in PageAction
  /\ event_queue[1] # event_queue[MaxQueue]
\* ------------------------------------------------------------------ C18
\* C18: a helper call leaves the six lists of the mirror as they are: the
\* mirror changes in no step other than a turn of the loop of __call__, in
\* which a handler runs.
C18_HelpersSpareMirror ==
  [][Mirror' # Mirror => (pc = "running" /\ pc' = "running")]_vars

\* the caller has called move_process, and nothing else, on the batch it
\* holds
C18_Witness ==
  /\ pc = "held"
  /\ Len(event_queue) = 1
  /\ event_queue[1] \in ProcessAction
\* ------------------------------------------------------------------ C19
\* C19: the batch __call__ returns is the queue itself, not a copy of it:
\* what the caller was handed at the last return always shows the queue as
\* it is now, helper calls made since included; and the batch handed out at
\* the return before is emptied when the next invocation begins and from
\* then on always shows the same as the newest batch.
C19_SameList ==
  obs = "refs" =>
    /\ out # NoHandle => View(out) = QueueOf(out.of)
    /\ older # NoHandle =>
         /\ View(older) = QueueOf(older.of)
         /\ out.of = older.of => View(older) = View(out)
         /\ (pc = "running" /\ self_id = older.of)
              => View(older) = requested

\* run_os is inside its next invocation, and the batch it returned before
\* held actions when that invocation began
C19_Witness ==
  /\ obs = "refs"
  /\ pc = "running"
  /\ stale
  /\ older # NoHandle
  /\ older.of = 1
  /\ self_id = 1
\* ------------------------------------------------------------------ C20
\* C20: the queue and the mirror belong to the class and are shared by all
\* its instances: every instance sees the same seven lists, so an action
\* appended through the helper of one instance is in the queue of the
\* others, and the batch an instance returned shows the queue of whichever
\* instance acted last, emptied when any of them is invoked.
C20_SharedByInstances ==
  obs = "refs" =>
    /\ \A i, j \in Instances : Self(i) = Self(j)
    /\ out # NoHandle => View(out) = QueueOf(self_id)
    /\ older # NoHandle => View(older) = QueueOf(self_id)
    /\ (pc = "running" /\ older # NoHandle) => View(older) = requested

\* a second instance is inside an invocation that began while the batch
\* returned by run_os held actions
C20_Witness ==
  /\ obs = "refs"
  /\ pc = "running"
  /\ stale
  /\ self_id # 1
  /\ older.of = 1
====
